---- MODULE Spec2Model ----
(***************************************************************************)
(* Credential leasing engine of the chess review bot (bot.py, sqlite       *)
(* backend; bot_v2.0.py, Firestore backend).                               *)
(*                                                                         *)
(* Time is counted in whole days, the unit of every duration argument of   *)
(* the code.  All handlers run on one asyncio event loop; the database     *)
(* functions are blocking calls, so the store accesses of one handler are  *)
(* never interleaved with those of another coroutine.  The model keeps one *)
(* step per store write of the two-write operations (assign, free) and the *)
(* record cur of the coroutine that currently holds the loop.              *)
(***************************************************************************)
EXTENDS Integers, FiniteSets, Sequences, Bags, TLC

\* ---------------------------------------------------------------- bounds
MaxDays == 2
MaxTime == 1
MaxTimers == 2

UserIds == {1, 2}
Names == {"A", "B"}
Passwords == {"p1"}
DaysArgs == 1..MaxDays

NULL == "NULL"
NULLDATE == 0 - 1000

\* the users that talk to the bot in the purchase conversation
Customers == {1}

\* the conversations: the handler keeps one for each pair of chat and user
\* (per_chat and per_user are left at their defaults), user_data is kept for
\* each user. The key of the conversation of user u in the private chat is u
\* (the id of that chat is the id of the user), GroupKey(u) is the key of the
\* conversation of u in a group chat (ids of group chats are negative).
GroupKey(u) == 0 - u

ConvKeys == Customers \cup {GroupKey(u) : u \in Customers}

\* update.effective_user of an update that belongs to conversation k
user_of(k) == IF k < 0 THEN 0 - k ELSE k

\* the states of the ConversationHandler; END is ConversationHandler.END
CHOOSING_PLAN == 0
AWAITING_PAYMENT_CONFIRM == 1
AWAITING_SCREENSHOT == 2
END == 0 - 1

\* context.user_data without the key 'plan'
NoPlan == 0 - 1000

VARIABLES
    users,        \* table users: user_id -> row
    credentials,  \* table credentials: username -> row
    timers,       \* bag of sleeping run_cleanup_task_after_delay tasks
    now,          \* datetime.now(timezone.utc), in days
    cur,          \* the handler that holds the event loop, and its locals
    impl,         \* which of the two source files is running
    conv,         \* ConversationHandler: the state of each user's conversation
    user_data     \* context.user_data of each user: the staged plan

vars == <<users, credentials, timers, now, cur, impl, conv, user_data>>

\* ------------------------------------------------------------ store rows
NewUser ==
    [is_bot_use |-> FALSE, plan_expiry_date |-> NULLDATE,
     assigned_username |-> NULL, assigned_password |-> NULL]

Idle == [op |-> "idle", pc |-> "idle", kind |-> "none", user |-> 0,
         days |-> 0, cred |-> NULL, password |-> NULL]

\* the handler is at its reply_text / send_message call: every store access
\* of the handler is done, kind is the outcome the message reports
Msg(cmd, kind, user, days, cred) ==
    [op |-> cmd, pc |-> "reply", kind |-> kind, user |-> user,
     days |-> days, cred |-> cred, password |-> NULL]

\* a handler between two of its store accesses
Running(cmd, pc, user, days, cred, password) ==
    [op |-> cmd, pc |-> pc, kind |-> "none", user |-> user,
     days |-> days, cred |-> cred, password |-> password]

get_user(user_id) ==
    IF user_id \in DOMAIN users THEN {users[user_id]} ELSE {}

get_credential(username) ==
    IF username \in DOMAIN credentials THEN {credentials[username]} ELSE {}

\* ------------------------------------------- get_available_credential
\* a query that forgets the status column
WhereAnyStatus(required_expiry_date) ==
    {c \in DOMAIN credentials :
        credentials[c].credential_expiry_date >= required_expiry_date}

\* WHERE status = 'available' AND credential_expiry_date >= ?
WhereAvailable(required_expiry_date) ==
    {c \in DOMAIN credentials :
        /\ credentials[c].status = "available"
        /\ credentials[c].credential_expiry_date >= required_expiry_date}

\* a query that sorts the wrong way round
OrderByExpiryDesc(rows) ==
    {s \in [1..Cardinality(rows) -> rows] :
        /\ \A i, j \in 1..Cardinality(rows) : i # j => s[i] # s[j]
        /\ \A i, j \in 1..Cardinality(rows) :
               i < j => credentials[s[i]].credential_expiry_date
                          >= credentials[s[j]].credential_expiry_date}

\* ORDER BY credential_expiry_date ASC: every ordering of the rows the
\* database may produce (rows of equal expiry come in any order)
OrderByExpiryAsc(rows) ==
    {s \in [1..Cardinality(rows) -> rows] :
        /\ \A i, j \in 1..Cardinality(rows) : i # j => s[i] # s[j]
        /\ \A i, j \in 1..Cardinality(rows) :
               i < j => credentials[s[i]].credential_expiry_date
                          <= credentials[s[j]].credential_expiry_date}

\* a query that compares with > where the code has >=
get_available_credential_strict(required_days) ==
    LET rows == WhereAvailable(now + required_days + 1)
    IN  IF rows = {} THEN {NULL}
        ELSE {s[1] : s \in OrderByExpiryAsc(rows)}

\* LIMIT 1 + fetchone(): the usernames the call may return, NULL for None
get_available_credential(required_days) ==
    LET rows == WhereAvailable(now + required_days)
    IN  IF rows = {} THEN {NULL}
        ELSE {s[1] : s \in OrderByExpiryAsc(rows)}

\* ------------------------------------------------------------------ Init
\* the store after init_db, no task yet
InitStore ==
    /\ users = <<>>
    /\ credentials = <<>>
    /\ timers = EmptyBag
    /\ now = 0
    /\ cur = Idle
    /\ conv = [k \in ConvKeys |-> END]
    /\ user_data = [u \in Customers |-> [plan |-> NoPlan]]

\* bot.py is running
Init == InitStore /\ impl = "bot"

\* bot_v2.0.py is running
InitV2 == InitStore /\ impl = "bot_v2"

\* ------------------------------------------------- first contact (start)
\* an upsert that writes the blank row over an existing one
add_or_get_user_resets(user_id) ==
    /\ cur = Idle
    /\ users' = IF user_id \in DOMAIN users
                THEN [users EXCEPT ![user_id] = NewUser]
                ELSE users @@ (user_id :> NewUser)
    /\ UNCHANGED <<credentials, timers, now, cur, impl, conv, user_data>>

add_or_get_user(user_id) ==
    /\ cur = Idle
    /\ users' = IF user_id \in DOMAIN users THEN users
                ELSE users @@ (user_id :> NewUser)
    /\ UNCHANGED <<credentials, timers, now, cur, impl, conv, user_data>>

\* ---------------------------------------------------- /addcredential
\* an insert that binds the username to the password column
add_credential_wrong_column(username, password, days) ==
    /\ cur = Idle
    /\ IF username \in DOMAIN credentials
       THEN /\ cur' = Msg("add", "DuplicateCredential", 0, days, username)
            /\ UNCHANGED credentials
       ELSE /\ credentials' = credentials @@ (username :>
                   [password |-> username, status |-> "available",
                    credential_expiry_date |-> now + days])
            /\ cur' = [Msg("add", "added", 0, days, username)
                          EXCEPT !.password = password]
    /\ UNCHANGED <<users, timers, now, impl, conv, user_data>>

\* INSERT OR REPLACE: an insert that overwrites the row of the username
add_credential_replaces(username, password, days) ==
    /\ cur = Idle
    /\ credentials' = [c \in DOMAIN credentials \cup {username} |->
            IF c = username
            THEN [password |-> password, status |-> "available",
                  credential_expiry_date |-> now + days]
            ELSE credentials[c]]
    /\ cur' = IF username \in DOMAIN credentials
              THEN Msg("add", "DuplicateCredential", 0, days, username)
              ELSE [Msg("add", "added", 0, days, username)
                       EXCEPT !.password = password]
    /\ UNCHANGED <<users, timers, now, impl, conv, user_data>>

add_credential(username, password, days) ==
    /\ cur = Idle
    /\ IF username \in DOMAIN credentials
       THEN /\ cur' = Msg("add", "DuplicateCredential", 0, days, username)
            /\ UNCHANGED credentials
       ELSE /\ credentials' = credentials @@ (username :>
                   [password |-> password, status |-> "available",
                    credential_expiry_date |-> now + days])
            /\ cur' = [Msg("add", "added", 0, days, username)
                          EXCEPT !.password = password]
    /\ UNCHANGED <<users, timers, now, impl, conv, user_data>>

\* --------------------------------------------------- /editcredential
\* an edit that also puts the credential back into the pool
edit_credential_resets(username, new_password, new_days) ==
    /\ cur = Idle
    /\ IF username \notin DOMAIN credentials
       THEN /\ cur' = Msg("edit", "CredentialNotFound", 0, new_days, username)
            /\ UNCHANGED credentials
       ELSE /\ credentials' = [credentials EXCEPT
                   ![username].password = new_password,
                   ![username].status = "available",
                   ![username].credential_expiry_date = now + new_days]
            /\ cur' = [Msg("edit", "updated", 0, new_days, username)
                          EXCEPT !.password = new_password]
    /\ UNCHANGED <<users, timers, now, impl, conv, user_data>>

\* an update that creates the document it does not find
edit_credential_upserts(username, new_password, new_days) ==
    /\ cur = Idle
    /\ credentials' = [c \in DOMAIN credentials \cup {username} |->
            IF c = username
            THEN [password |-> new_password,
                  status |-> IF c \in DOMAIN credentials
                             THEN credentials[c].status ELSE "available",
                  credential_expiry_date |-> now + new_days]
            ELSE credentials[c]]
    /\ cur' = IF username \notin DOMAIN credentials
              THEN Msg("edit", "CredentialNotFound", 0, new_days, username)
              ELSE [Msg("edit", "updated", 0, new_days, username)
                       EXCEPT !.password = new_password]
    /\ UNCHANGED <<users, timers, now, impl, conv, user_data>>

edit_credential(username, new_password, new_days) ==
    /\ cur = Idle
    /\ IF username \notin DOMAIN credentials
       THEN /\ cur' = Msg("edit", "CredentialNotFound", 0, new_days, username)
            /\ UNCHANGED credentials
       ELSE /\ credentials' = [credentials EXCEPT
                   ![username].password = new_password,
                   ![username].credential_expiry_date = now + new_days]
            /\ cur' = [Msg("edit", "updated", 0, new_days, username)
                          EXCEPT !.password = new_password]
    /\ UNCHANGED <<users, timers, now, impl, conv, user_data>>

\* ------------------------------------------------------ /permitbotuse
\* a grant that does not look the user up
permit_bot_use_unchecked(target_user_id, days_to_grant) ==
    /\ cur = Idle
    /\ BagCardinality(timers) < MaxTimers
    /\ \E available_cred \in get_available_credential(days_to_grant) :
          IF available_cred = NULL
          THEN cur' = Msg("permit", "OutOfStock", target_user_id,
                          days_to_grant, NULL)
          ELSE cur' = Running("permit", "assign_user", target_user_id,
                              days_to_grant, available_cred,
                              credentials[available_cred].password)
    /\ UNCHANGED <<users, credentials, timers, now, impl, conv, user_data>>

\* up to the call of assign_credential_to_user: the two reads
permit_bot_use(target_user_id, days_to_grant) ==
    /\ cur = Idle
    /\ BagCardinality(timers) < MaxTimers
    /\ IF get_user(target_user_id) = {}
       THEN cur' = Msg("permit", "UserNotFound", target_user_id,
                       days_to_grant, NULL)
       ELSE \E available_cred \in get_available_credential(days_to_grant) :
              IF available_cred = NULL
              THEN cur' = Msg("permit", "OutOfStock", target_user_id,
                              days_to_grant, NULL)
              ELSE cur' = Running("permit", "assign_user", target_user_id,
                                  days_to_grant, available_cred,
                                  credentials[available_cred].password)
    /\ UNCHANGED <<users, credentials, timers, now, impl, conv, user_data>>

\* len(context.args) != 2, or int() raises ValueError
permit_bot_use_usage ==
    /\ cur = Idle
    /\ cur' = Msg("permit", "InvalidArgument", 0, 0, NULL)
    /\ UNCHANGED <<users, credentials, timers, now, impl, conv, user_data>>

\* an assignment whose user update never reaches the table
assign_credential_to_user_lost ==
    /\ cur.op = "permit" /\ cur.pc = "assign_user"
    /\ cur' = [cur EXCEPT !.pc = "assign_status"]
    /\ UNCHANGED <<users, credentials, timers, now, impl, conv, user_data>>

\* assign_credential_to_user, first write: UPDATE users SET assigned_...
assign_credential_to_user ==
    /\ cur.op = "permit" /\ cur.pc = "assign_user"
    /\ users' = [users EXCEPT ![cur.user].assigned_username = cur.cred,
                              ![cur.user].assigned_password = cur.password]
    /\ cur' = [cur EXCEPT !.pc = "assign_status"]
    /\ UNCHANGED <<credentials, timers, now, impl, conv, user_data>>

\* an update that never reaches the table
update_credential_status_lost(username, status) == credentials

\* UPDATE credentials SET status = ? WHERE username = ?
update_credential_status(username, status) ==
    IF username \in DOMAIN credentials
    THEN [credentials EXCEPT ![username].status = status]
    ELSE credentials

\* assign_credential_to_user, second write
assign_status_in_use ==
    /\ cur.op = "permit" /\ cur.pc = "assign_status"
    /\ credentials' = update_credential_status(cur.cred, "in_use")
    /\ cur' = [cur EXCEPT !.pc = "grant"]
    /\ UNCHANGED <<users, timers, now, impl, conv, user_data>>

\* a grant that writes the expiry date but not the flag
grant_user_access_flag_forgotten ==
    /\ cur.op = "permit" /\ cur.pc = "grant"
    /\ users' = [users EXCEPT ![cur.user].plan_expiry_date = now + cur.days]
    /\ cur' = [cur EXCEPT !.pc = "create_task"]
    /\ UNCHANGED <<credentials, timers, now, impl, conv, user_data>>

grant_user_access ==
    /\ cur.op = "permit" /\ cur.pc = "grant"
    /\ users' = [users EXCEPT ![cur.user].is_bot_use = TRUE,
                              ![cur.user].plan_expiry_date = now + cur.days]
    /\ cur' = [cur EXCEPT !.pc = "create_task"]
    /\ UNCHANGED <<credentials, timers, now, impl, conv, user_data>>

\* a delay computed a day too long
Timer_late(user_id, delay_days) ==
    [user |-> user_id, fire_at |-> now + delay_days + 1]

\* run_cleanup_task_after_delay(context, user_id, delay) asleep until fire_at
Timer(user_id, delay_days) == [user |-> user_id, fire_at |-> now + delay_days]

\* a grant that forgets to start the cleanup task
create_task_forgotten ==
    /\ cur.op = "permit" /\ cur.pc = "create_task"
    /\ cur' = Msg("permit", "granted", cur.user, cur.days, cur.cred)
    /\ UNCHANGED <<users, credentials, timers, now, impl, conv, user_data>>

\* seconds_to_wait = days_to_grant * 86400; asyncio.create_task(...)
create_task ==
    /\ cur.op = "permit" /\ cur.pc = "create_task"
    /\ timers' = timers (+) SetToBag({Timer(cur.user, cur.days)})
    /\ cur' = Msg("permit", "granted", cur.user, cur.days, cur.cred)
    /\ UNCHANGED <<users, credentials, now, impl, conv, user_data>>

\* ---------------------------------------------------- /restrictbotuse
\* a revoke whose update never reaches the table
revoke_user_access_lost(user_id) == users

revoke_user_access(user_id) ==
    IF user_id \in DOMAIN users
    THEN [users EXCEPT ![user_id].is_bot_use = FALSE,
                       ![user_id].plan_expiry_date = NULLDATE]
    ELSE users

\* a revoke that takes the credential away as well
restrict_bot_use_frees(target_user_id) ==
    /\ cur = Idle
    /\ IF get_user(target_user_id) # {}
       THEN /\ users' = [revoke_user_access(target_user_id) EXCEPT
                            ![target_user_id].assigned_username = NULL,
                            ![target_user_id].assigned_password = NULL]
            /\ cur' = Msg("restrict", "revoked", target_user_id, 0, NULL)
       ELSE /\ cur' = Msg("restrict", "UserNotFound", target_user_id, 0, NULL)
            /\ UNCHANGED users
    /\ UNCHANGED <<credentials, timers, now, impl, conv, user_data>>

restrict_bot_use(target_user_id) ==
    /\ cur = Idle
    /\ IF get_user(target_user_id) # {}
       THEN /\ users' = revoke_user_access(target_user_id)
            /\ cur' = Msg("restrict", "revoked", target_user_id, 0, NULL)
       ELSE /\ cur' = Msg("restrict", "UserNotFound", target_user_id, 0, NULL)
            /\ UNCHANGED users
    /\ UNCHANGED <<credentials, timers, now, impl, conv, user_data>>

\* --------------------------------------- free_credential_from_user
\* the reads of free_credential_from_user: the username it is going to
\* free, NULL when it returns None
username_to_free(user_id) ==
    IF user_id \in DOMAIN users
    THEN users[user_id].assigned_username
    ELSE NULL

\* a handler that looks the user up with add_or_get_user
free_credential_creates_user(target_user_id) ==
    /\ cur = Idle
    /\ users' = IF target_user_id \in DOMAIN users THEN users
                ELSE users @@ (target_user_id :> NewUser)
    /\ IF username_to_free(target_user_id) = NULL
       THEN cur' = Msg("free", "NoCredentialAssigned", target_user_id, 0, NULL)
       ELSE cur' = Running("free", "free_user", target_user_id, 0,
                           username_to_free(target_user_id), NULL)
    /\ UNCHANGED <<credentials, timers, now, impl, conv, user_data>>

\* /freecredential, up to the reads of free_credential_from_user
free_credential(target_user_id) ==
    /\ cur = Idle
    /\ IF username_to_free(target_user_id) = NULL
       THEN cur' = Msg("free", "NoCredentialAssigned", target_user_id, 0, NULL)
       ELSE cur' = Running("free", "free_user", target_user_id, 0,
                           username_to_free(target_user_id), NULL)
    /\ UNCHANGED <<users, credentials, timers, now, impl, conv, user_data>>

\* the else branch of the cleanup task: only bot_v2.0.py revokes there
cleanup_nothing_freed(user_id) ==
    IF impl = "bot_v2"
    THEN Running("cleanup", "revoke", user_id, 0, NULL, NULL)
    ELSE Msg("cleanup", "skipped", user_id, 0, NULL)

\* run_cleanup_task_after_delay: asyncio.sleep(delay_seconds) is over
run_cleanup_task_after_delay(t) ==
    /\ cur = Idle
    /\ BagIn(t, timers)
    /\ now >= t.fire_at
    /\ timers' = timers (-) SetToBag({t})
    /\ IF username_to_free(t.user) # NULL
       THEN cur' = Running("cleanup", "free_user", t.user, 0,
                           username_to_free(t.user), NULL)
       ELSE cur' = cleanup_nothing_freed(t.user)
    /\ UNCHANGED <<users, credentials, now, impl, conv, user_data>>

\* a free whose first update never reaches the table
free_credential_from_user_keeps ==
    /\ cur.op \in {"free", "cleanup"} /\ cur.pc = "free_user"
    /\ cur' = [cur EXCEPT !.pc = "free_status"]
    /\ UNCHANGED <<users, credentials, timers, now, impl, conv, user_data>>

\* free_credential_from_user, first write: UPDATE users SET assigned_... = NULL
free_credential_from_user ==
    /\ cur.op \in {"free", "cleanup"} /\ cur.pc = "free_user"
    /\ users' = [users EXCEPT ![cur.user].assigned_username = NULL,
                              ![cur.user].assigned_password = NULL]
    /\ cur' = [cur EXCEPT !.pc = "free_status"]
    /\ UNCHANGED <<credentials, timers, now, impl, conv, user_data>>

\* free_credential_from_user, second write
free_status_available ==
    /\ cur.op \in {"free", "cleanup"} /\ cur.pc = "free_status"
    /\ credentials' = update_credential_status(cur.cred, "available")
    /\ cur' = [cur EXCEPT !.pc = "revoke"]
    /\ UNCHANGED <<users, timers, now, impl, conv, user_data>>

\* a caller that reports the outcome without revoking
revoke_after_free_skipped ==
    /\ cur.op \in {"free", "cleanup"} /\ cur.pc = "revoke"
    /\ cur' = Msg(cur.op, IF cur.cred = NULL THEN "skipped" ELSE "freed",
                  cur.user, 0, cur.cred)
    /\ UNCHANGED <<users, credentials, timers, now, impl, conv, user_data>>

\* revoke_user_access as free_credential and the cleanup task call it
revoke_after_free ==
    /\ cur.op \in {"free", "cleanup"} /\ cur.pc = "revoke"
    /\ users' = revoke_user_access(cur.user)
    /\ cur' = Msg(cur.op, IF cur.cred = NULL THEN "skipped" ELSE "freed",
                  cur.user, 0, cur.cred)
    /\ UNCHANGED <<credentials, timers, now, impl, conv, user_data>>

\* reply_text / send_message: the handler reports its outcome and returns
send_message ==
    /\ cur.pc = "reply"
    /\ cur' = Idle
    /\ UNCHANGED <<users, credentials, timers, now, impl, conv, user_data>>

\* ------------------------------------------------------------- the clock
TimerDue == \E t \in BagToSet(timers) : now >= t.fire_at

\* a day passes: no handler is in its synchronous part, no sleep is over
Tick ==
    /\ cur = Idle
    /\ ~TimerDue
    /\ now < MaxTime
    /\ now' = now + 1
    /\ UNCHANGED <<users, credentials, timers, cur, impl, conv, user_data>>

\* ------------------------------------------------------------------ Next
Next ==
    \/ \E u \in UserIds : add_or_get_user(u)
    \/ \E c \in Names, p \in Passwords, d \in DaysArgs : add_credential(c, p, d)
    \/ \E c \in Names, p \in Passwords, d \in DaysArgs : edit_credential(c, p, d)
    \/ \E u \in UserIds, d \in DaysArgs : permit_bot_use(u, d)
    \/ permit_bot_use_usage
    \/ assign_credential_to_user
    \/ assign_status_in_use
    \/ grant_user_access
    \/ create_task
    \/ \E u \in UserIds : restrict_bot_use(u)
    \/ \E u \in UserIds : free_credential(u)
    \/ \E t \in BagToSet(timers) : run_cleanup_task_after_delay(t)
    \/ free_credential_from_user
    \/ free_status_available
    \/ revoke_after_free
    \/ send_message
    \/ Tick

Spec == Init /\ [][Next]_vars

\* the steps of the coroutine that holds the event loop
HandlerStep ==
    \/ assign_credential_to_user
    \/ assign_status_in_use
    \/ grant_user_access
    \/ create_task
    \/ free_credential_from_user
    \/ free_status_available
    \/ revoke_after_free
    \/ send_message

\* the process keeps running: a running handler goes on to its end, time
\* passes, and the event loop resumes every task whose sleep is over
Fairness ==
    /\ WF_vars(HandlerStep)
    /\ SF_vars(Tick)
    /\ \A u \in UserIds, f \in 0..MaxTime :
          SF_vars(run_cleanup_task_after_delay([user |-> u, fire_at |-> f]))

FairSpec == Spec /\ Fairness

SpecV2 == InitV2 /\ [][Next]_vars

\* /editcredential with a password the credential did not have before
NewPassword == "p2"

rotate_secret ==
    \E c \in Names, d \in DaysArgs : edit_credential(c, NewPassword, d)

NextSecrets == Next \/ rotate_secret

\* the behaviours in which the admin also changes secrets
SpecSecrets == Init /\ [][NextSecrets]_vars

\* the days arguments that int() accepts: zero and negative numbers too
AnyDays == (0 - 1)..MaxDays

NextAnyDays ==
    \/ Next
    \/ \E c \in Names, p \in Passwords, d \in AnyDays : add_credential(c, p, d)
    \/ \E c \in Names, p \in Passwords, d \in AnyDays : edit_credential(c, p, d)
    \/ \E u \in UserIds, d \in AnyDays : permit_bot_use(u, d)

\* the behaviours in which the admin passes any integer for the days
SpecAnyDays == Init /\ [][NextAnyDays]_vars

\* either file is the one that runs
InitBoth == InitStore /\ impl \in {"bot", "bot_v2"}

\* the behaviours of bot.py together with those of bot_v2.0.py
SpecBoth == InitBoth /\ [][Next]_vars

\* ------------------------------------------------ restart, store errors
\* the process is stopped and main() runs again: the tasks, the conversation
\* states and user_data live in memory only, the two tables are kept; main
\* builds the handlers and starts polling, it reads no table
restart ==
    /\ timers' = EmptyBag
    /\ conv' = [k \in ConvKeys |-> END]
    /\ user_data' = [u \in Customers |-> [plan |-> NoPlan]]
    /\ cur' = Msg("main", "running", 0, 0, NULL)
    /\ UNCHANGED <<users, credentials, now, impl>>

\* the sleep of a cleanup task is over and the first store access of
\* free_credential_from_user fails: bot.py logs the exception and the task
\* ends; in bot_v2.0.py get_user swallows it and returns None, so the task
\* goes on as if the user held nothing
cleanup_store_error(t) ==
    /\ cur = Idle
    /\ BagIn(t, timers)
    /\ now >= t.fire_at
    /\ timers' = timers (-) SetToBag({t})
    /\ cur' = IF impl = "bot_v2"
              THEN cleanup_nothing_freed(t.user)
              ELSE Msg("cleanup", "failed", t.user, 0, NULL)
    /\ UNCHANGED <<users, credentials, now, impl, conv, user_data>>

NextFaults ==
    \/ Next
    \/ restart
    \/ \E t \in BagToSet(timers) : cleanup_store_error(t)

\* the behaviours with restarts of the process and failing store accesses
SpecFaults == Init /\ [][NextFaults]_vars

\* ---------------------------------------------- the purchase conversation
\* the ConversationHandler of main: /start is entry point and fallback with
\* allow_reentry, conv[u] is the state of the conversation of user u (END: no
\* conversation), user_data[u] is context.user_data of u. A handler of a state
\* runs only while the conversation of the user is in that state.
ConvOps == {"start", "buy", "paid", "cancel", "screenshot", "my_details"}

\* start: the plans that are always put on the keyboard
default_plans == {14, 7}

\* start: the durations put on the keyboard when a credential fits
dynamic_durations == {2, 3, 4, 5, 8, 9, 10, 11, 12, 13}

\* INSERT OR IGNORE of add_or_get_user: the users table afterwards
add_or_get_user_row(user_id) ==
    IF user_id \in DOMAIN users THEN users
    ELSE users @@ (user_id :> NewUser)

\* a query that keeps the rows that expire at this very moment
get_all_available_credentials_inclusive ==
    LET rows == {c \in DOMAIN credentials :
                    /\ credentials[c].status = "available"
                    /\ credentials[c].credential_expiry_date >= now}
    IN  {[i \in 1..Cardinality(rows) |->
             [username |-> s[i],
              credential_expiry_date |-> credentials[s[i]].credential_expiry_date]]
         : s \in OrderByExpiryAsc(rows)}

\* WHERE status = 'available' AND credential_expiry_date > now ORDER BY
\* credential_expiry_date ASC, fetchall(): the row lists the call may return
get_all_available_credentials ==
    LET rows == {c \in DOMAIN credentials :
                    /\ credentials[c].status = "available"
                    /\ credentials[c].credential_expiry_date > now}
    IN  {[i \in 1..Cardinality(rows) |->
             [username |-> s[i],
              credential_expiry_date |-> credentials[s[i]].credential_expiry_date]]
         : s \in OrderByExpiryAsc(rows)}

\* the rows of credentials JOIN users ON username = assigned_username
JoinRows ==
    {[username |-> c,
      credential_expiry_date |-> credentials[c].credential_expiry_date,
      user_id |-> u] :
        c \in {x \in DOMAIN credentials : credentials[x].status = "in_use"},
        u \in DOMAIN users} 

\* a LEFT JOIN: a credential that no user holds comes with user_id NULL
get_all_used_credentials_left_join ==
    LET held == {r \in JoinRows : users[r.user_id].assigned_username = r.username}
        lone == {[username |-> c,
                  credential_expiry_date |-> credentials[c].credential_expiry_date,
                  user_id |-> 0] :
                    c \in {x \in DOMAIN credentials :
                              /\ credentials[x].status = "in_use"
                              /\ \A u \in DOMAIN users :
                                    users[u].assigned_username # x}}
    IN  {held \cup lone}

\* bot.py: the inner JOIN WHERE c.status = 'in_use', one row for each user
\* that holds the credential; bot_v2.0.py: for each in_use credential the
\* first user found with that assigned_username (the order of the users is
\* not fixed), none if there is no such user. The row sets the call may
\* return.
get_all_used_credentials ==
    LET held == {r \in JoinRows : users[r.user_id].assigned_username = r.username}
    IN  IF impl = "bot_v2"
        THEN {rows \in SUBSET held :
                 \A c \in {r.username : r \in held} :
                    Cardinality({r \in rows : r.username = c}) = 1}
        ELSE {held}

\* the durations on the keyboard that start builds. bot.py: the default plans
\* and each dynamic duration for which get_available_credential finds a row;
\* bot_v2.0.py: the whole days each listed credential still has, when >= 1
plan_keyboard ==
    IF impl = "bot_v2"
    THEN {d \in 1..(MaxDays + MaxTime) :
             \E c \in DOMAIN credentials :
                /\ credentials[c].status = "available"
                /\ credentials[c].credential_expiry_date > now
                /\ credentials[c].credential_expiry_date - now = d}
    ELSE default_plans \cup
         {d \in dynamic_durations : get_available_credential(d) # {NULL}}

\* the durations a buy_<n>_days button can carry: the buttons of an earlier
\* keyboard stay in the chat and can still be pressed
callback_durations ==
    IF impl = "bot_v2" THEN DaysArgs ELSE default_plans \cup dynamic_durations

\* a ConversationHandler without allow_reentry and without the fallback: /start
\* is taken only while the user has no conversation
start_no_reentry(k) ==
    /\ cur = Idle
    /\ conv[k] = END
    /\ users' = add_or_get_user_row(user_of(k))
    /\ conv' = [conv EXCEPT ![k] = CHOOSING_PLAN]
    /\ cur' = Msg("start", "menu", user_of(k), 0, NULL)
    /\ UNCHANGED <<credentials, timers, now, impl, user_data>>

\* /start in any state: add_or_get_user, the keyboard, return CHOOSING_PLAN;
\* user_data is not touched
start(k) ==
    /\ cur = Idle
    /\ users' = add_or_get_user_row(user_of(k))
    /\ conv' = [conv EXCEPT ![k] = CHOOSING_PLAN]
    /\ cur' = Msg("start", "menu", user_of(k), 0, NULL)
    /\ UNCHANGED <<credentials, timers, now, impl, user_data>>

\* a handler that stages the plan with setdefault: a plan that is still in
\* user_data is kept
handle_buy_plan_setdefault(k, duration) ==
    /\ cur = Idle
    /\ conv[k] = CHOOSING_PLAN
    /\ IF get_available_credential(duration) = {NULL}
       THEN /\ users' = add_or_get_user_row(user_of(k))
            /\ conv' = [conv EXCEPT ![k] = END]
            /\ cur' = Msg("buy", "out_of_stock", user_of(k), duration, NULL)
            /\ UNCHANGED user_data
       ELSE /\ user_data' = IF user_data[user_of(k)].plan = NoPlan
                            THEN [user_data EXCEPT ![user_of(k)].plan = duration]
                            ELSE user_data
            /\ conv' = [conv EXCEPT ![k] = AWAITING_PAYMENT_CONFIRM]
            /\ cur' = Msg("buy", "selected", user_of(k), duration, NULL)
            /\ UNCHANGED users
    /\ UNCHANGED <<credentials, timers, now, impl>>

\* a handler that stages the plan without asking the pool
handle_buy_plan_unchecked(k, duration) ==
    /\ cur = Idle
    /\ conv[k] = CHOOSING_PLAN
    /\ user_data' = [user_data EXCEPT ![user_of(k)].plan = duration]
    /\ conv' = [conv EXCEPT ![k] = AWAITING_PAYMENT_CONFIRM]
    /\ cur' = Msg("buy", "selected", user_of(k), duration, NULL)
    /\ UNCHANGED <<users, credentials, timers, now, impl>>

\* a buy button in CHOOSING_PLAN. Out of stock: the notice, start() is
\* called for the keyboard and the handler returns ConversationHandler.END;
\* otherwise the plan is put into user_data and the handler returns
\* AWAITING_PAYMENT_CONFIRM. (The keyboards of the bot carry well-formed
\* data only, so the branch for unparsable data is never taken.)
handle_buy_plan(k, duration) ==
    /\ cur = Idle
    /\ conv[k] = CHOOSING_PLAN
    /\ IF get_available_credential(duration) = {NULL}
       THEN /\ users' = add_or_get_user_row(user_of(k))
            /\ conv' = [conv EXCEPT ![k] = END]
            /\ cur' = Msg("buy", "out_of_stock", user_of(k), duration, NULL)
            /\ UNCHANGED user_data
       ELSE /\ user_data' = [user_data EXCEPT ![user_of(k)].plan = duration]
            /\ conv' = [conv EXCEPT ![k] = AWAITING_PAYMENT_CONFIRM]
            /\ cur' = Msg("buy", "selected", user_of(k), duration, NULL)
            /\ UNCHANGED users
    /\ UNCHANGED <<credentials, timers, now, impl>>

\* the "I Have Paid" button in AWAITING_PAYMENT_CONFIRM
handle_payment_confirmation(k) ==
    /\ cur = Idle
    /\ conv[k] = AWAITING_PAYMENT_CONFIRM
    /\ conv' = [conv EXCEPT ![k] = AWAITING_SCREENSHOT]
    /\ cur' = Msg("paid", "send_screenshot", user_of(k), 0, NULL)
    /\ UNCHANGED <<users, credentials, timers, now, impl, user_data>>

\* the "Cancel Order" button in AWAITING_PAYMENT_CONFIRM: user_data.clear()
\* and the result of start()
cancel_order(k) ==
    /\ cur = Idle
    /\ conv[k] = AWAITING_PAYMENT_CONFIRM
    /\ user_data' = [user_data EXCEPT ![user_of(k)].plan = NoPlan]
    /\ users' = add_or_get_user_row(user_of(k))
    /\ conv' = [conv EXCEPT ![k] = CHOOSING_PLAN]
    /\ cur' = Msg("cancel", "menu", user_of(k), 0, NULL)
    /\ UNCHANGED <<credentials, timers, now, impl>>

\* a handler that grants the plan itself when the photo arrives
handle_screenshot_grants(k) ==
    /\ cur = Idle
    /\ conv[k] = AWAITING_SCREENSHOT
    /\ users' = IF user_data[user_of(k)].plan = NoPlan THEN users
                ELSE [users EXCEPT ![user_of(k)].is_bot_use = TRUE,
                                   ![user_of(k)].plan_expiry_date = now + user_data[user_of(k)].plan]
    /\ cur' = IF user_data[user_of(k)].plan = NoPlan
              THEN Msg("screenshot", "no_plan", user_of(k), 0, NULL)
              ELSE Msg("screenshot", "OrderSubmitted", user_of(k), user_data[user_of(k)].plan, NULL)
    /\ user_data' = [user_data EXCEPT ![user_of(k)].plan = NoPlan]
    /\ conv' = [conv EXCEPT ![k] = END]
    /\ UNCHANGED <<credentials, timers, now, impl>>

\* a photo in AWAITING_SCREENSHOT: without a plan in user_data the handler
\* ends the conversation; otherwise it sends the photo and the text
\* /permitbotuse <user.id> <plan duration> to the admin, clears user_data and
\* ends the conversation
handle_screenshot(k) ==
    /\ cur = Idle
    /\ conv[k] = AWAITING_SCREENSHOT
    /\ cur' = IF user_data[user_of(k)].plan = NoPlan
              THEN Msg("screenshot", "no_plan", user_of(k), 0, NULL)
              ELSE Msg("screenshot", "OrderSubmitted", user_of(k), user_data[user_of(k)].plan, NULL)
    /\ user_data' = IF user_data[user_of(k)].plan = NoPlan THEN user_data
                    ELSE [user_data EXCEPT ![user_of(k)].plan = NoPlan]
    /\ conv' = [conv EXCEPT ![k] = END]
    /\ UNCHANGED <<users, credentials, timers, now, impl>>

\* the "My Details" button in CHOOSING_PLAN (returns CHOOSING_PLAN) or the
\* /mydetails command in any state (its result is not a conversation state):
\* get_user and a message that shows the assignment
my_details(k) ==
    /\ cur = Idle
    /\ conv' = IF conv[k] = CHOOSING_PLAN
               THEN [conv EXCEPT ![k] = CHOOSING_PLAN] ELSE conv
    /\ cur' = Msg("my_details", "details", user_of(k), 0,
                  IF get_user(user_of(k)) = {} THEN NULL ELSE users[user_of(k)].assigned_username)
    /\ UNCHANGED <<users, credentials, timers, now, impl, user_data>>

\* the message of a list command, rows is what the query returned
Listing(cmd, rows) ==
    [op |-> cmd, pc |-> "reply", kind |-> "rows", user |-> 0, days |-> 0,
     cred |-> NULL, password |-> NULL, rows |-> rows]

\* /availablecreds
see_available_credentials ==
    /\ cur = Idle
    /\ \E rows \in get_all_available_credentials :
          cur' = Listing("availablecreds", rows)
    /\ UNCHANGED <<users, credentials, timers, now, impl, conv, user_data>>

\* /usedcreds
see_used_credentials ==
    /\ cur = Idle
    /\ \E rows \in get_all_used_credentials :
          cur' = Listing("usedcreds", rows)
    /\ UNCHANGED <<users, credentials, timers, now, impl, conv, user_data>>

NextShop ==
    \/ Next
    \/ \E u \in Customers : start(u)
    \/ \E u \in Customers, d \in callback_durations : handle_buy_plan(u, d)
    \/ \E u \in Customers : handle_payment_confirmation(u)
    \/ \E u \in Customers : cancel_order(u)
    \/ \E u \in Customers : handle_screenshot(u)
    \/ \E u \in Customers : my_details(u)
    \/ see_available_credentials
    \/ see_used_credentials

\* the same handlers for the conversations in a group chat
NextChats ==
    \/ NextShop
    \/ \E u \in Customers : start(GroupKey(u))
    \/ \E u \in Customers, d \in callback_durations :
          handle_buy_plan(GroupKey(u), d)
    \/ \E u \in Customers : handle_payment_confirmation(GroupKey(u))
    \/ \E u \in Customers : cancel_order(GroupKey(u))
    \/ \E u \in Customers : handle_screenshot(GroupKey(u))
    \/ \E u \in Customers : my_details(GroupKey(u))

\* the behaviours in which a customer talks to the bot in two chats
SpecChats == Init /\ [][NextChats]_vars

SpecChatsV2 == InitV2 /\ [][NextChats]_vars

\* the behaviours with the purchase conversation and the list commands
SpecShop == Init /\ [][NextShop]_vars

SpecShopV2 == InitV2 /\ [][NextShop]_vars

\* ------------------------------------------------------ the admin check
\* ADMIN_USERID of the environment, a string
ADMIN_USERID == "9"

\* the users that send commands: the customers and the admin
Callers == UserIds \cup {9}

\* str(user_id)
str(user_id) == CASE user_id = 1 -> "1" [] user_id = 2 -> "2" [] user_id = 9 -> "9"

\* a check that lets everybody pass
is_admin_anyone(user_id) == TRUE

is_admin(user_id) == str(user_id) = ADMIN_USERID

AdminCommands == {"add", "edit", "permit", "restrict", "free",
                  "availablecreds", "usedcreds", "seedetails"}

\* if not await is_admin(update.effective_user.id): return
not_admin_return(cmd, caller) ==
    /\ cur = Idle
    /\ cur' = Running(cmd, "return", caller, 0, NULL, NULL)
    /\ UNCHANGED <<users, credentials, timers, now, impl, conv, user_data>>

\* the handler has returned without a message
handler_return ==
    /\ cur.pc = "return"
    /\ cur' = Idle
    /\ UNCHANGED <<users, credentials, timers, now, impl, conv, user_data>>

\* /seedetails <user_id>: get_user, get_credential and a message
see_details(target_user_id) ==
    /\ cur = Idle
    /\ cur' = IF get_user(target_user_id) = {}
              THEN Msg("seedetails", "UserNotFound", target_user_id, 0, NULL)
              ELSE Msg("seedetails", "details", target_user_id, 0,
                       users[target_user_id].assigned_username)
    /\ UNCHANGED <<users, credentials, timers, now, impl, conv, user_data>>

\* an admin command sent by caller: every admin handler begins with the
\* check of is_admin
admin_command(caller) ==
    IF is_admin(caller)
    THEN \/ \E c \in Names, pw \in Passwords, d \in DaysArgs :
               add_credential(c, pw, d)
         \/ \E c \in Names, pw \in Passwords, d \in DaysArgs :
               edit_credential(c, pw, d)
         \/ \E u \in UserIds, d \in DaysArgs : permit_bot_use(u, d)
         \/ permit_bot_use_usage
         \/ \E u \in UserIds : restrict_bot_use(u)
         \/ \E u \in UserIds : free_credential(u)
         \/ see_available_credentials
         \/ see_used_credentials
         \/ \E u \in UserIds : see_details(u)
    ELSE \E cmd \in AdminCommands : not_admin_return(cmd, caller)

NextCallers ==
    \/ Next
    \/ \E caller \in Callers : admin_command(caller)
    \/ handler_return

\* the behaviours in which customers send the admin commands too
SpecCallers == Init /\ [][NextCallers]_vars

\* ======================================================================
\* Properties
\* ======================================================================
Holders(c) == {u \in DOMAIN users : users[u].assigned_username = c}

Expiry(c) == credentials[c].credential_expiry_date

\* the brute-force scan: every credential that is available and lasts for
\* d more days
Qualifying(d) ==
    {c \in Names : /\ c \in DOMAIN credentials
                   /\ credentials[c].status = "available"
                   /\ Expiry(c) >= now + d}

\* durations to probe FindBestFit with, wider than what the commands send
ProbeDays == (0 - 1)..(MaxDays + 1)

\* ---------------------------------------------------------------- C1
\* C1: no double-assignment: in every reachable state every credential
\* username is the assigned_username of at most one user.
C1_NoDoubleAssignment ==
    \A c \in Names : Cardinality(Holders(c)) <= 1

\* a credential that has gone from one user to the other: it was granted,
\* given back and is assigned again while the first user's timer still sleeps
C1_Witness ==
    \E u1, u2 \in DOMAIN users, c \in DOMAIN credentials :
        /\ u1 # u2
        /\ cur = Idle
        /\ Holders(c) = {u2}
        /\ users[u1].assigned_username = NULL
        /\ \E t \in BagToSet(timers) : t.user = u1
        /\ Cardinality(DOMAIN credentials) = 1

\* ---------------------------------------------------------------- C3
\* C3: FindBestFit(requiredDays) returns NotFound iff no credential is
\* available with credential_expiry >= now + requiredDays; otherwise what it
\* returns is available, lasts long enough, and no other such credential
\* expires sooner (the result of a brute-force scan).
C3_FindBestFit ==
    \A d \in ProbeDays :
        /\ get_available_credential(d) # {}
        /\ (NULL \in get_available_credential(d)) <=> (Qualifying(d) = {})
        /\ \A r \in get_available_credential(d) \ {NULL} :
              /\ r \in Qualifying(d)
              /\ \A c \in Qualifying(d) : Expiry(r) <= Expiry(c)

\* two available credentials of different expiry both fit one duration and
\* none fits another duration
C3_Witness ==
    /\ cur = Idle
    /\ \E d \in DaysArgs :
          \E a, b \in Qualifying(d) : Expiry(a) < Expiry(b)
    /\ \E d \in ProbeDays : Qualifying(d) = {}

\* ---------------------------------------------------------------- C2
\* c is the only credential that would fit d if it were in the pool
OnlyFit(c, d) ==
    {x \in DOMAIN credentials :
        /\ Expiry(x) >= now + d
        /\ (credentials[x].status = "available" \/ x = c)} = {c}

BestFit(d) ==
    {c \in Qualifying(d) : \A x \in Qualifying(d) : Expiry(c) <= Expiry(x)}

\* C4: a successful GrantAccess(user_id, days) assigns the credential that
\* is the best fit for days when the call reads the pool (of A expiring
\* sooner than B, both fitting, it takes A), and when it reports success that
\* credential is in_use and assigned to the user, the user is active and
\* plan_expiry = now + days.
C4_GrantAssignsBestFit ==
    [][ /\ (cur = Idle /\ cur'.op = "permit" /\ cur'.pc = "assign_user")
            => cur'.cred \in BestFit(cur'.days)
        /\ (cur.op = "permit" /\ cur.pc # "reply")
            => /\ cur'.op = "permit"
               /\ cur'.user = cur.user
               /\ cur'.cred = cur.cred
               /\ cur'.days = cur.days
        /\ (cur'.op = "permit" /\ cur'.kind = "granted")
            => /\ users'[cur'.user].assigned_username = cur'.cred
               /\ credentials'[cur'.cred].status = "in_use"
               /\ users'[cur'.user].is_bot_use
               /\ users'[cur'.user].plan_expiry_date = now' + cur'.days
      ]_vars

\* a grant has succeeded although a longer-lived credential also fitted
C4_Witness ==
    /\ cur.op = "permit" /\ cur.kind = "granted"
    /\ \E b \in DOMAIN credentials :
          /\ credentials[b].status = "available"
          /\ Expiry(b) >= now + cur.days
          /\ Expiry(b) > Expiry(cur.cred)

\* ---------------------------------------------------------------- C5
\* C5: once Assign(u, c) is done c is in_use; an in_use credential is
\* returned by no FindBestFit call, whatever the duration, is selected and
\* written by no GrantAccess, and stops being in_use only by the status
\* write of a FreeCredential or scheduled reclaim that frees c.
C5_InUseNotOffered ==
    [][ /\ (cur.op = "permit" /\ cur.pc = "assign_status")
            => credentials'[cur.cred].status = "in_use"
        /\ \A c \in DOMAIN credentials :
             credentials[c].status = "in_use"
             => /\ \A d \in ProbeDays : c \notin get_available_credential(d)
                /\ ~(cur = Idle /\ cur'.op = "permit" /\ cur'.cred = c)
                /\ ~(cur.op = "permit" /\ cur.pc = "assign_user" /\ cur.cred = c)
                /\ credentials'[c].status # "in_use"
                     => /\ cur.op \in {"free", "cleanup"}
                        /\ cur.pc = "free_status"
                        /\ cur.cred = c
      ]_vars

\* a grant is refused while a credential that lasts long enough is in_use
C5_Witness ==
    /\ cur.op = "permit" /\ cur.kind = "OutOfStock"
    /\ \E c \in DOMAIN credentials :
          /\ credentials[c].status = "in_use"
          /\ Expiry(c) >= now + cur.days
          /\ Holders(c) # {}

\* ---------------------------------------------------------------- C6
\* GrantAccess(u, days) has just reported success with credential c, and
\* the delay ends within the time the model runs
JustGranted(u, c) ==
    /\ cur.op = "permit" /\ cur.kind = "granted"
    /\ cur.user = u /\ cur.cred = c
    /\ now + cur.days <= MaxTime

Reclaimed(u, c) ==
    /\ u \in DOMAIN users /\ c \in DOMAIN credentials
    /\ credentials[c].status = "available"
    /\ users[u].assigned_username = NULL
    /\ ~users[u].is_bot_use

\* the one manual action that takes c out of the reach of u's timer: the
\* admin granted u again, so that u holds another credential
GrantedAgain(u, c) ==
    /\ u \in DOMAIN users
    /\ users[u].assigned_username \notin {c, NULL}

\* C6: automatic reclaim: after a successful GrantAccess(u, days) that
\* assigned c, while the process keeps running, the system reaches a state
\* where c is available, u holds nothing and u is not active, unless the
\* admin manually granted u another credential in the meantime.
C6_AutomaticReclaim ==
    \A u \in UserIds, c \in Names :
        JustGranted(u, c) ~> (Reclaimed(u, c) \/ GrantedAgain(u, c))

\* the cleanup task has freed the credential it found and revoked the user
C6_Witness ==
    /\ cur.op = "cleanup" /\ cur.kind = "freed"
    /\ Reclaimed(cur.user, cur.cred)
    /\ \A t \in BagToSet(timers) : t.user # cur.user

\* ---------------------------------------------------------------- C7
\* C7: for every user with is_active = true that holds credential c,
\* plan_expiry is not later than c's credential_expiry, in every reachable
\* state, also after Edit on a credential that is in_use.
C7_LeaseWithinCredentialExpiry ==
    \A u \in DOMAIN users :
        (users[u].is_bot_use /\ users[u].assigned_username \in DOMAIN credentials)
        => users[u].plan_expiry_date <= Expiry(users[u].assigned_username)

\* ---------------------------------------------------------------- C8
Copies(t, bag) == IF BagIn(t, bag) THEN CopiesIn(t, bag) ELSE 0

\* C8: a successful GrantAccess(u, days) arms exactly one reclaim timer for
\* u, whose firing time is the plan_expiry the grant wrote (now + days); no
\* other step arms a timer, so a GrantAccess that reports UserNotFound,
\* OutOfStock or bad arguments arms none.
C8_OneTimerPerGrant ==
    [][ /\ (cur'.op = "permit" /\ cur'.kind = "granted")
            => /\ timers' = timers (+) SetToBag({[user |-> cur'.user,
                     fire_at |-> users'[cur'.user].plan_expiry_date]})
               /\ users'[cur'.user].plan_expiry_date = now + cur'.days
        /\ ~(cur'.op = "permit" /\ cur'.kind = "granted")
            => \A t \in BagToSet(timers') : Copies(t, timers') <= Copies(t, timers)
        /\ (cur'.op = "permit" /\ cur'.kind
                \in {"UserNotFound", "OutOfStock", "InvalidArgument"})
            => timers' = timers
      ]_vars

\* a second grant to the same user has armed a second timer
C8_Witness ==
    /\ cur.op = "permit" /\ cur.kind = "granted"
    /\ Cardinality({t \in BagToSet(timers) : t.user = cur.user}) = 2

\* ---------------------------------------------------------------- C9
\* C9: no scheduled reclaim frees a credential from, or deactivates, a user
\* whose current plan_expiry is still in the future, also when the user was
\* freed and granted again, or granted a second time, before an earlier
\* grant's timer fired.
C9_NoEarlyReclaim ==
    [][\A u \in DOMAIN users :
         ( /\ cur.op = "cleanup" /\ cur.user = u
           /\ users[u].plan_expiry_date # NULLDATE
           /\ users[u].plan_expiry_date > now )
         => /\ users'[u].assigned_username = users[u].assigned_username
            /\ users'[u].is_bot_use = users[u].is_bot_use
      ]_vars

\* ---------------------------------------------------------------- C10
\* C10: a reclaim timer that fires for a user u who holds nothing (u was
\* freed manually before) changes no credential and no other user, leaves u
\* without a credential, and when it is done u.is_active is false; this
\* also when the credential u had is assigned to another user by then.
C10_LateTimerAfterFree ==
    [][ /\ ( \/ (cur = Idle /\ cur'.op = "cleanup" /\ cur'.cred = NULL)
             \/ (cur.op = "cleanup" /\ cur.cred = NULL) )
            => /\ credentials' = credentials
               /\ \A u \in DOMAIN users :
                    /\ users'[u].assigned_username = users[u].assigned_username
                    /\ u # cur'.user /\ cur'.op = "cleanup" => users'[u] = users[u]
        /\ (cur'.op = "cleanup" /\ cur'.kind = "skipped")
            => ~users'[cur'.user].is_bot_use
      ]_vars

\* the timer of u found nothing to free while the other user holds the only
\* credential of the pool, the one u was granted
C10_Witness ==
    /\ cur.op = "cleanup" /\ cur.kind = "skipped"
    /\ Cardinality(DOMAIN credentials) = 1
    /\ \E u2 \in DOMAIN users \ {cur.user} :
          users[u2].assigned_username \in DOMAIN credentials

\* ---------------------------------------------------------------- C11
\* C11: when a scheduled reclaim for user u has fired and is done, u is not
\* active, whether a credential was freed or nothing was freed because u held
\* none when the timer fired.
C11_ReclaimLeavesInactive ==
    (cur.op = "cleanup" /\ cur.pc = "reply")
    => /\ cur.kind \in {"freed", "skipped"}
       /\ cur.user \in DOMAIN users
       /\ ~users[cur.user].is_bot_use

\* bot.py took the branch without a revoke: the timer found nothing to free
\* and nobody holds a credential
C11_Witness ==
    /\ impl = "bot"
    /\ cur.op = "cleanup" /\ cur.kind = "skipped"
    /\ now >= 1
    /\ DOMAIN credentials # {}
    /\ \A u \in DOMAIN users : users[u].assigned_username = NULL

\* ---------------------------------------------------------------- C12
Converged(u) == (users[u].assigned_username # NULL) <=> users[u].is_bot_use

\* an admin operation or a scheduled reclaim has made all its store accesses
Completed ==
    /\ cur.pc = "reply"
    /\ cur.op \in {"permit", "restrict", "free", "cleanup"}

\* C12 as stated: after every completed GrantAccess, RevokeAccess,
\* FreeCredential and scheduled reclaim every user has an assigned credential
\* if and only if it is active.
C12_AssignedIffActive ==
    Completed => \A u \in DOMAIN users : Converged(u)

\* C12 amended: after every completed operation every active user has an
\* assigned credential; after a successful GrantAccess, a FreeCredential or a
\* scheduled reclaim the user it acted on has a credential if and only if it is
\* active.  (RevokeAccess leaves the credential with the user it deactivates.)
C12_ConvergesExceptRevoked ==
    Completed
    => /\ \A u \in DOMAIN users :
             users[u].is_bot_use => users[u].assigned_username # NULL
       /\ ( /\ cur.user \in DOMAIN users
            /\ \/ cur.op \in {"free", "cleanup"}
               \/ cur.op = "permit" /\ cur.kind = "granted" )
          => Converged(cur.user)

\* a grant is done for one user while the other one, revoked before, still
\* has its credential
C12_Witness ==
    /\ cur.op = "permit" /\ cur.kind = "granted"
    /\ Converged(cur.user)
    /\ \E u \in DOMAIN users \ {cur.user} :
          users[u].assigned_username # NULL /\ ~users[u].is_bot_use

\* ---------------------------------------------------------------- C13
\* C13: in every reachable state, the ones between the two store writes of
\* Assign and of Free included, a credential whose status is available is the
\* assigned_username of no user.
C13_AvailableNotHeld ==
    \A c \in DOMAIN credentials :
        credentials[c].status = "available" => Holders(c) = {}

\* ---------------------------------------------------------------- C14
\* C14: RevokeAccess(u) on an existing user sets is_active = false and
\* plan_expiry = None and changes nothing else: not u's assigned credential,
\* no credential, no other user; on an unknown user it reports UserNotFound and
\* changes nothing.
C14_RevokeFrame ==
    [][ /\ \A u \in UserIds :
             (cur = Idle /\ cur'.op = "restrict" /\ cur'.user = u)
             => /\ credentials' = credentials
                /\ IF u \in DOMAIN users
                   THEN /\ cur'.kind = "revoked"
                        /\ users' = [users EXCEPT ![u] =
                              [is_bot_use |-> FALSE,
                               plan_expiry_date |-> NULLDATE,
                               assigned_username |-> users[u].assigned_username,
                               assigned_password |-> users[u].assigned_password]]
                   ELSE /\ cur'.kind = "UserNotFound"
                        /\ users' = users
        /\ cur.op = "restrict"
             => users' = users /\ credentials' = credentials
      ]_vars

\* an active user that holds a credential has been revoked while the other
\* user is active with a credential of its own
C14_Witness ==
    /\ cur.op = "restrict" /\ cur.kind = "revoked"
    /\ users[cur.user].assigned_username \in DOMAIN credentials
    /\ credentials[users[cur.user].assigned_username].status = "in_use"
    /\ ~users[cur.user].is_bot_use
    /\ users[cur.user].plan_expiry_date = NULLDATE
    /\ \E u \in DOMAIN users \ {cur.user} :
          users[u].is_bot_use /\ users[u].assigned_username # NULL

\* ---------------------------------------------------------------- C15
\* C15: when FreeCredential(u) reports success u has no assigned credential,
\* is not active and has no plan_expiry, and the credential u held is
\* available and assigned to nobody; and no step leaves a credential with the
\* user that had it when afterwards the credential is available and the user
\* is active.
C15_FreeCredential ==
    [][ /\ (cur.pc # "reply" /\ cur'.op = "free" /\ cur'.kind = "freed")
            => /\ users'[cur'.user] = NewUser
               /\ credentials'[cur'.cred].status = "available"
               /\ \A u \in DOMAIN users' :
                     users'[u].assigned_username # cur'.cred
        /\ \A u \in DOMAIN users, c \in DOMAIN credentials :
             ~ ( /\ users[u].assigned_username = c
                 /\ users'[u].assigned_username = c
                 /\ users'[u].is_bot_use
                 /\ credentials'[c].status = "available" )
      ]_vars

\* the admin freed the credential of a user whose reclaim timer still sleeps
C15_Witness ==
    /\ cur.op = "free" /\ cur.kind = "freed"
    /\ users[cur.user] = NewUser
    /\ credentials[cur.cred].status = "available"
    /\ \E t \in BagToSet(timers) : t.user = cur.user /\ t.fire_at > now

\* ---------------------------------------------------------------- C16
\* C16: Free(u) for a user that holds no credential, or that does not
\* exist, returns None and changes no user and no credential, and a second
\* call returns None again; FreeCredential then reports NoCredentialAssigned
\* and revokes nothing.
C16_FreeIdempotent ==
    [][\A u \in UserIds :
         /\ ( /\ cur = Idle
              /\ cur'.op = "free" /\ cur'.user = u
              /\ username_to_free(u) = NULL )
            => /\ cur'.kind = "NoCredentialAssigned"
               /\ users' = users
               /\ credentials' = credentials
               /\ username_to_free(u)' = NULL
         /\ ( /\ cur.op = "free" /\ cur.user = u
              /\ cur.kind = "NoCredentialAssigned" )
            => /\ users' = users
               /\ credentials' = credentials
               /\ username_to_free(u)' = NULL
      ]_vars

\* FreeCredential found nothing to free for a user that exists, while the
\* other user holds a credential
C16_Witness ==
    /\ cur.op = "free" /\ cur.kind = "NoCredentialAssigned"
    /\ cur.user \in DOMAIN users
    /\ \E u \in DOMAIN users \ {cur.user} :
          users[u].assigned_username # NULL /\ users[u].is_bot_use

\* ---------------------------------------------------------------- C17
\* C17: GrantAccess(user_id, days) for a user_id without a user record
\* reports UserNotFound, and for an existing user when FindBestFit(days) finds
\* nothing it reports OutOfStock; in both cases no user, no credential and no
\* scheduled reclaim is created or changed.
C17_GrantFailures ==
    [][ /\ \A u \in UserIds, d \in DaysArgs :
             ( /\ cur = Idle
               /\ cur'.op = "permit" /\ cur'.user = u /\ cur'.days = d )
             => /\ u \notin DOMAIN users => cur'.kind = "UserNotFound"
                /\ (u \in DOMAIN users /\ Qualifying(d) = {})
                      => cur'.kind = "OutOfStock"
        /\ ( \/ cur.op = "permit" /\ cur.kind \in {"UserNotFound", "OutOfStock"}
             \/ cur'.op = "permit" /\ cur'.kind \in {"UserNotFound", "OutOfStock"} )
            => /\ users' = users
               /\ credentials' = credentials
               /\ timers' = timers
      ]_vars

\* a grant for an unknown user is refused although a credential fits and a
\* reclaim of the other user is pending
C17_Witness ==
    /\ cur.op = "permit" /\ cur.kind = "UserNotFound"
    /\ cur.user \notin DOMAIN users
    /\ Qualifying(cur.days) # {}
    /\ timers # EmptyBag

\* ---------------------------------------------------------------- C18
\* C18: Add(username, secret, days) for a username not in the pool succeeds
\* and GetCredential(username) then yields that secret, status available and
\* credential_expiry = (time of the Add) + days; no other credential and no
\* user is changed.
C18_AddRoundTrip ==
    [][\A c \in Names :
         /\ ( /\ cur = Idle
              /\ cur'.op = "add" /\ cur'.cred = c
              /\ get_credential(c) = {} )
            => /\ cur'.kind = "added"
               /\ cur'.password \in Passwords
               /\ get_credential(c)' =
                     {[password |-> cur'.password, status |-> "available",
                       credential_expiry_date |-> now + cur'.days]}
               /\ DOMAIN credentials' = DOMAIN credentials \cup {c}
               /\ \A x \in DOMAIN credentials :
                     credentials'[x] = credentials[x]
               /\ users' = users
         /\ (cur.op = "add" /\ cur.kind = "added" /\ cur.cred = c)
            => /\ get_credential(c)' = get_credential(c)
               /\ users' = users
      ]_vars

\* a credential was added on the second day while the other credential is
\* in_use
C18_Witness ==
    /\ cur.op = "add" /\ cur.kind = "added"
    /\ now >= 1
    /\ get_credential(cur.cred) =
          {[password |-> cur.password, status |-> "available",
            credential_expiry_date |-> now + cur.days]}
    /\ \E x \in DOMAIN credentials \ {cur.cred} :
          credentials[x].status = "in_use"

\* ---------------------------------------------------------------- C19
\* C19: Add on a username that is in the pool reports DuplicateCredential
\* and leaves the credential's secret, status (in_use too) and
\* credential_expiry as they were, and every user record.
C19_AddDuplicate ==
    [][\A c \in Names :
         /\ ( /\ cur = Idle
              /\ cur'.op = "add" /\ cur'.cred = c
              /\ get_credential(c) # {} )
            => /\ cur'.kind = "DuplicateCredential"
               /\ credentials' = credentials
               /\ users' = users
         /\ (cur.op = "add" /\ cur.kind = "DuplicateCredential")
            => /\ credentials' = credentials
               /\ users' = users
      ]_vars

\* the duplicate is an in_use credential whose secret was changed and whose
\* expiry is not the one the Add asks for
C19_Witness ==
    /\ cur.op = "add" /\ cur.kind = "DuplicateCredential"
    /\ credentials[cur.cred].status = "in_use"
    /\ credentials[cur.cred].password = NewPassword
    /\ Expiry(cur.cred) # now + cur.days

\* ---------------------------------------------------------------- C20
\* C20: Edit(username, newSecret, newDays) on an existing credential sets
\* its secret to newSecret and its credential_expiry to now + newDays, leaves
\* its status and every other credential as they were; on an unknown username
\* it reports CredentialNotFound and creates or changes no record.
C20_EditFrame ==
    [][\A c \in Names :
         /\ (cur = Idle /\ cur'.op = "edit" /\ cur'.cred = c)
            => IF get_credential(c) # {}
               THEN /\ cur'.kind = "updated"
                    /\ credentials' = [credentials EXCEPT ![c] =
                          [password |-> cur'.password,
                           status |-> credentials[c].status,
                           credential_expiry_date |-> now + cur'.days]]
               ELSE /\ cur'.kind = "CredentialNotFound"
                    /\ credentials' = credentials
                    /\ users' = users
         /\ cur.op = "edit" => credentials' = credentials /\ users' = users
      ]_vars

\* the secret and the expiry of an in_use credential were changed
C20_Witness ==
    /\ cur.op = "edit" /\ cur.kind = "updated"
    /\ cur.password = NewPassword
    /\ credentials[cur.cred] =
          [password |-> NewPassword, status |-> "in_use",
           credential_expiry_date |-> now + cur.days]
    /\ \E u \in DOMAIN users :
          /\ users[u].assigned_username = cur.cred
          /\ users[u].assigned_password # NewPassword
          /\ users[u].plan_expiry_date # now + cur.days

\* ---------------------------------------------------------------- C21
\* C21: when the process has restarted, a reclaim is armed again for every
\* user with is_active = true, due at plan_expiry (at once when plan_expiry is
\* past), so that the leases that were active at the restart are reclaimed.
C21_RestartRearms ==
    cur.op = "main"
    => \A u \in DOMAIN users :
          users[u].is_bot_use
          => \E t \in BagToSet(timers) :
                /\ t.user = u
                /\ t.fire_at = IF users[u].plan_expiry_date > now
                               THEN users[u].plan_expiry_date ELSE now

\* ---------------------------------------------------------------- C22
\* C22: a scheduled reclaim that failed with a store error when it fired is
\* not dropped: a reclaim for that user is still scheduled, to be tried again.
C22_FailedReclaimRetried ==
    (cur.op = "cleanup" /\ cur.kind = "failed")
    => \/ \E t \in BagToSet(timers) : t.user = cur.user
       \/ users[cur.user].assigned_username = NULL

\* ---------------------------------------------------------------- C23
\* C23: firing the reclaim of user u a second time right after the first
\* changes nothing: when a firing is done u holds nothing, is not active and
\* has no plan_expiry, and a firing for a user in that state leaves every user
\* and every credential as it was.
C23_ReclaimTwice ==
    [][ /\ (cur'.op = "cleanup" /\ cur'.pc = "reply")
            => /\ users'[cur'.user].assigned_username = NULL
               /\ users'[cur'.user].plan_expiry_date = NULLDATE
               /\ ~users'[cur'.user].is_bot_use
        /\ \A u \in DOMAIN users :
             ( /\ users[u].assigned_username = NULL
               /\ ~users[u].is_bot_use
               /\ users[u].plan_expiry_date = NULLDATE
               /\ \/ cur = Idle /\ cur'.op = "cleanup" /\ cur'.user = u
                  \/ cur.op = "cleanup" /\ cur.user = u /\ cur.cred = NULL )
             => users' = users /\ credentials' = credentials
      ]_vars

\* the first firing has freed the credential of a user and a second task for
\* the same user is due
C23_Witness ==
    /\ cur.op = "cleanup" /\ cur.kind = "freed"
    /\ \E t \in BagToSet(timers) : t.user = cur.user /\ t.fire_at <= now

\* ---------------------------------------------------------------- C24
\* C24: a conversation goes from ChoosingPlan to AwaitingPaymentConfirm only
\* by a select(duration) for which, at that moment, some available credential
\* lasts for duration more days, and the staged plan is then exactly that
\* duration.
C24_SelectGuard ==
    [][ \A u \in Customers :
          (conv[u] = CHOOSING_PLAN /\ conv'[u] = AWAITING_PAYMENT_CONFIRM)
          => /\ cur'.op = "buy" /\ cur'.user = u
             /\ Qualifying(cur'.days) # {}
             /\ user_data'[u].plan = cur'.days
      ]_vars

\* a duration in stock has been selected
C24_Witness ==
    /\ cur.op = "buy" /\ cur.kind = "selected"
    /\ conv[cur.user] = AWAITING_PAYMENT_CONFIRM
    /\ user_data[cur.user].plan = cur.days

\* ---------------------------------------------------------------- C25
\* C25: when a select fails its guard (no credential fits), the conversation
\* of the user is still in ChoosingPlan, so that the next select is handled.
C25_OutOfStockStays ==
    (cur.op = "buy" /\ cur.kind = "out_of_stock")
    => conv[cur.user] = CHOOSING_PLAN

\* ---------------------------------------------------------------- C26
\* C26: cancel leads from AwaitingPaymentConfirm to ChoosingPlan, and whenever
\* the conversation of a user is in ChoosingPlan or has reached OrderSubmitted
\* the user has no staged plan.
C26_NoStagedPlan ==
    /\ cur.op = "cancel" => conv[cur.user] = CHOOSING_PLAN
    /\ \A u \in Customers :
          \/ conv[u] = CHOOSING_PLAN
          \/ cur.op = "screenshot" /\ cur.kind = "OrderSubmitted" /\ cur.user = u
          => user_data[u].plan = NoPlan

\* ---------------------------------------------------------------- C27
\* C27: a conversation transition changes no credential, no scheduled reclaim
\* and no field of an existing user (a first /start only adds a user without
\* a lease); receivePhoto with a staged plan ends AwaitingScreenshot as
\* OrderSubmitted and forwards the grant request for the staged duration; a
\* user becomes active only in a step of /permitbotuse.
C27_ConversationFrame ==
    [][ /\ (cur = Idle /\ cur'.op \in ConvOps)
           => /\ credentials' = credentials
              /\ timers' = timers
              /\ \A u \in DOMAIN users' :
                    users'[u] = IF u \in DOMAIN users THEN users[u] ELSE NewUser
        /\ (cur = Idle /\ cur'.op = "screenshot" /\ cur'.kind = "OrderSubmitted")
           => /\ conv[cur'.user] = AWAITING_SCREENSHOT
              /\ conv'[cur'.user] = END
              /\ cur'.days = user_data[cur'.user].plan
        /\ \A u \in DOMAIN users' :
              ( /\ users'[u].is_bot_use
                /\ ~(u \in DOMAIN users /\ users[u].is_bot_use) )
              => cur.op = "permit"
      ]_vars

\* an order has been submitted while a credential is available, and the user
\* holds no lease
C27_Witness ==
    /\ cur.op = "screenshot" /\ cur.kind = "OrderSubmitted"
    /\ ~users[cur.user].is_bot_use
    /\ users[cur.user].assigned_username = NULL
    /\ Qualifying(cur.days) # {}

\* ---------------------------------------------------------------- C28
\* C28: for every duration d on the keyboard shown on entry to ChoosingPlan
\* some credential is available at that moment with expiry >= now + d.
C28_OfferedInStock ==
    (cur.pc = "reply" /\ cur.op \in {"start", "cancel"})
    => \A d \in plan_keyboard : Qualifying(d) # {}

\* ---------------------------------------------------------------- C29
\* C29: the list of /availablecreds holds exactly the credentials that are
\* available with expiry > now, each once, in ascending order of expiry.
C29_ListAvailable ==
    cur.op = "availablecreds"
    => /\ {cur.rows[i].username : i \in DOMAIN cur.rows}
            = {c \in DOMAIN credentials : /\ credentials[c].status = "available"
                                           /\ Expiry(c) > now}
       /\ \A i, j \in DOMAIN cur.rows :
             /\ i # j => cur.rows[i].username # cur.rows[j].username
             /\ i < j => cur.rows[i].credential_expiry_date
                           <= cur.rows[j].credential_expiry_date
       /\ \A i \in DOMAIN cur.rows :
             cur.rows[i].credential_expiry_date = Expiry(cur.rows[i].username)

\* the list leaves out a credential that expires at this moment and one that
\* is in use
C29_Witness ==
    /\ cur.op = "availablecreds"
    /\ \E c \in DOMAIN credentials :
          /\ credentials[c].status = "available" /\ Expiry(c) = now
    /\ \E c \in DOMAIN credentials : credentials[c].status = "in_use"

\* ---------------------------------------------------------------- C30
\* C30: the list of /usedcreds has a row (credential, user_id) for every
\* in_use credential that some user holds, in every row the user's
\* assigned_username is the credential, and an in_use credential that no user
\* holds has no row; the command answers in that case too.
C30_ListInUse ==
    cur.op = "usedcreds"
    => /\ \A r \in cur.rows :
             /\ r.username \in DOMAIN credentials
             /\ credentials[r.username].status = "in_use"
             /\ r.user_id \in DOMAIN users
             /\ users[r.user_id].assigned_username = r.username
       /\ \A c \in DOMAIN credentials :
             (credentials[c].status = "in_use" /\ Holders(c) # {})
             => \E r \in cur.rows : r.username = c
       /\ cur.pc = "reply"

\* the list is shown while one in_use credential is held and another one has
\* no holder
C30_Witness ==
    /\ cur.op = "usedcreds"
    /\ \E c \in DOMAIN credentials :
          credentials[c].status = "in_use" /\ Holders(c) = {}
    /\ \E c \in DOMAIN credentials :
          credentials[c].status = "in_use" /\ Holders(c) # {}

\* ---------------------------------------------------------------- C31
\* C31: whatever the state of the conversation of a user, a /start is taken
\* and leads to ChoosingPlan and nowhere else; my details is available in
\* ChoosingPlan and leaves the conversation there.
C31_StartAndDetails ==
    \A u \in Customers :
       cur = Idle
       => /\ ENABLED start(u)
          /\ ~ENABLED (start(u) /\ conv'[u] # CHOOSING_PLAN)
          /\ conv[u] = CHOOSING_PLAN
             => /\ ENABLED my_details(u)
                /\ ~ENABLED (my_details(u) /\ conv'[u] # CHOOSING_PLAN)

\* /start has been sent in the middle of an order: the plan selected before
\* is still in user_data
C31_Witness ==
    /\ cur.op = "start"
    /\ conv[cur.user] = CHOOSING_PLAN
    /\ user_data[cur.user].plan # NoPlan

\* ---------------------------------------------------------------- C32
\* C32: a user record comes into being with is_active false, no plan_expiry
\* and no assigned credential; a contact (a message or /start) by a user who
\* has a record leaves is_active, plan_expiry and the assignment of every
\* user as they are; no step removes a user record.
C32_UserRecords ==
    [][ /\ DOMAIN users \subseteq DOMAIN users'
        /\ \A u \in DOMAIN users' \ DOMAIN users :
              /\ ~users'[u].is_bot_use
              /\ users'[u].plan_expiry_date = NULLDATE
              /\ users'[u].assigned_username = NULL
        /\ ( \/ \E v \in UserIds : add_or_get_user(v)
             \/ \E v \in Customers : start(v) )
           => \A u \in DOMAIN users :
                 /\ users'[u].is_bot_use = users[u].is_bot_use
                 /\ users'[u].plan_expiry_date = users[u].plan_expiry_date
                 /\ users'[u].assigned_username = users[u].assigned_username
      ]_vars

\* a user with a running lease has sent /start
C32_Witness ==
    /\ cur.op = "start"
    /\ users[cur.user].is_bot_use
    /\ users[cur.user].assigned_username # NULL

\* ---------------------------------------------------------------- C33
\* C33: bot.py and bot_v2.0.py differ in the leasing core only in the branch of
\* the reclaim that frees nothing, where bot_v2.0.py revokes and bot.py does
\* not; whenever either of them enters that branch the revoke would leave the
\* users table as it is, and the revoke of bot_v2.0.py does leave it so: both
\* go through the same user and credential fields.
C33_SameStates ==
    [][ /\ (cur = Idle /\ cur'.op = "cleanup" /\ cur'.cred = NULL)
           => revoke_user_access(cur'.user) = users
        /\ (cur.op = "cleanup" /\ cur.pc = "revoke" /\ cur.cred = NULL)
           => users' = users /\ credentials' = credentials
      ]_vars

\* bot_v2.0.py is in the branch that frees nothing, about to revoke, while a
\* credential is in use
C33_Witness ==
    /\ impl = "bot_v2"
    /\ cur.op = "cleanup" /\ cur.pc = "revoke" /\ cur.cred = NULL
    /\ \E c \in DOMAIN credentials : credentials[c].status = "in_use"

\* ---------------------------------------------------------------- C34
\* C34: when no operation is under way, every credential with status in_use
\* is held by some user (the user's assigned_username is its username), also
\* after a grant to a user who already holds a credential.
C34_NoLeak ==
    cur = Idle
    => \A c \in DOMAIN credentials :
          credentials[c].status = "in_use" => Holders(c) # {}

\* ---------------------------------------------------------------- C35
\* C35: when no operation is under way, a user with is_active true has an
\* assigned credential; so the reclaim never enters the branch that frees
\* nothing for a user with is_active true.
C35_ActiveHolds ==
    /\ cur = Idle
       => \A u \in DOMAIN users :
             users[u].is_bot_use => users[u].assigned_username # NULL
    /\ (cur.op = "cleanup" /\ cur.cred = NULL)
       => ~users[cur.user].is_bot_use

\* a reclaim is in the branch that frees nothing, while another user is active
C35_Witness ==
    /\ cur.op = "cleanup" /\ cur.cred = NULL
    /\ \E u \in DOMAIN users : users[u].is_bot_use

\* ---------------------------------------------------------------- C36
\* C36: whenever a conversation is in AwaitingPaymentConfirm or in
\* AwaitingScreenshot its user has a staged plan, and a photo received in
\* AwaitingScreenshot never ends with the answer for a missing plan.
C36_PlanStaged ==
    /\ \A k \in ConvKeys :
          conv[k] \in {AWAITING_PAYMENT_CONFIRM, AWAITING_SCREENSHOT}
          => user_data[user_of(k)].plan # NoPlan
    /\ cur.op = "screenshot" => cur.kind = "OrderSubmitted"

\* ---------------------------------------------------------------- C37
\* C37: the grant request forwarded when a photo is received names the user
\* who sent it and the duration of the latest successful select of that user:
\* every successful select stages its duration, whatever was staged before,
\* nothing else stages a duration, and the request carries the staged one.
C37_SubmitsLatestSelect ==
    [][ /\ (cur = Idle /\ cur'.op = "buy" /\ cur'.kind = "selected")
           => user_data'[cur'.user].plan = cur'.days
        /\ \A u \in Customers :
              user_data'[u].plan # user_data[u].plan
              => /\ cur = Idle /\ cur'.user = u
                 /\ \/ cur'.op = "buy" /\ cur'.kind = "selected"
                    \/ /\ cur'.op \in {"cancel", "screenshot"}
                       /\ user_data'[u].plan = NoPlan
        /\ (cur = Idle /\ cur'.op = "screenshot" /\ cur'.kind = "OrderSubmitted")
           => /\ cur'.days = user_data[cur'.user].plan
              /\ \E k \in ConvKeys :
                    /\ user_of(k) = cur'.user
                    /\ conv[k] = AWAITING_SCREENSHOT /\ conv'[k] = END
      ]_vars

\* an order for one day has been submitted in the private chat, while a pass
\* of the same user in the other chat was left in AwaitingPaymentConfirm and
\* a credential for a longer plan is available
C37_Witness ==
    /\ cur.op = "screenshot" /\ cur.kind = "OrderSubmitted" /\ cur.days = 1
    /\ conv[GroupKey(cur.user)] = AWAITING_PAYMENT_CONFIRM
    /\ Qualifying(2) # {}

\* ---------------------------------------------------------------- C38
\* C38: an admin command sent by a user who is not the admin changes no user
\* record and no credential record and schedules no reclaim.
C38_AdminOnly ==
    [][ ( \/ \E caller \in Callers \ {9} : admin_command(caller)
          \/ cur.pc = "return" )
        => /\ users' = users
           /\ credentials' = credentials
           /\ timers' = timers
      ]_vars

\* a customer has sent an admin command while he is active and a credential
\* is available
C38_Witness ==
    /\ cur.pc = "return" /\ cur.user \in UserIds
    /\ cur.user \in DOMAIN users /\ users[cur.user].is_bot_use
    /\ \E c \in DOMAIN credentials : credentials[c].status = "available"

\* ---------------------------------------------------------------- C39
\* C39: the secret stored on a user record for its assigned credential is the
\* secret that credential has in the pool, also after an edit of a credential
\* that is in use.
C39_SecretInSync ==
    \A u \in DOMAIN users :
       (users[u].assigned_username # NULL
        /\ users[u].assigned_username \in DOMAIN credentials)
       => users[u].assigned_password
            = credentials[users[u].assigned_username].password

\* ---------------------------------------------------------------- C40
\* C40: whatever integer the admin passes for the days, the credential that a
\* grant assigns has not expired: its credential_expiry is not earlier than
\* the current time.
C40_NoExpiredAssigned ==
    (cur.op = "permit" /\ cur.cred # NULL /\ cur.cred \in DOMAIN credentials)
    => credentials[cur.cred].credential_expiry_date >= now

====
